---- MODULE Spec2Model ----
(***************************************************************************)
(* A model of the CRM data-migration pipeline: the merge engine of         *)
(* scripts/merge.py (match keys, 3-of-5 blocking, union-find clustering,   *)
(* survivor selection, field merge, required-field backfill, Account IDs), *)
(* the backfill of scripts/build_registry.py and the file handling of      *)
(* scripts/ingest.py.                                                      *)
(*                                                                         *)
(* A cell value is a sequence of one-character strings.  NaN is the        *)
(* sequence <<"nan">> and the integer n is <<"int", d>> (d its decimal     *)
(* digit): "nan" and "int" are no characters, so neither is a string.      *)
(* A row is a function from column names to cell values, a table is        *)
(* [columns |-> a set of names, rows |-> a sequence of rows]; the row at   *)
(* position i+1 has the 0-based index i of the RangeIndex.                 *)
(***************************************************************************)
EXTENDS Integers, Sequences, FiniteSets, TLC

VARIABLES
    pc,        \* where the running script is
    src,       \* the input: [kind, table]; kind is "file" (the standardized file of
               \* main), "missing" (no such file), "frame" (a table handed to
               \* merge_all), "investors" or "registry" (a table handed to a backfill)
    df,        \* the working table
    blocks,    \* merge_all's blocks: a sequence of [k, ids], in insertion order
    p,         \* DSU.p, the parent map
    ri,        \* how many rows the blocking loop has indexed
    ui,        \* how many dsu.union calls of the union loop have run
    made,      \* the union calls made so far, when they are made in any order
    clusters,  \* merge_all's clusters: a sequence of [root, idxs], in insertion order
    out,       \* the result table
    required,  \* REQUIRED_COLS of the backfill that ran
    xls,       \* the workbook of ingest.py: [exists, sheets]
    fs0,       \* the paths that existed when the script started
    fs         \* the paths that exist

vars == <<pc, src, df, blocks, p, ri, ui, made, clusters, out, required, xls, fs0, fs>>

----------------------------------------------------------------------------
(* Bounds *)

MaxRows == 4
MaxRowsDropped == 2
MaxRowsOrder == 3
MaxCalls == 4
MaxSheets == 2
MaxSheetRows == 2
MaxHeaderRow == 2
MaxBackfillRows == 1

----------------------------------------------------------------------------
(* Cell values and the string functions the scripts use *)

NaN == <<"nan">>
IntVal(n) == <<"int", ToString(n)>>
Empty == <<>>

isna(x) == x = NaN
IsInt(x) == Len(x) = 2 /\ x[1] = "int"
isinstance_str(x) == ~isna(x) /\ ~IsInt(x)

\* str(x)
Str(x) == IF IsInt(x) THEN <<x[2]>> ELSE x

IsSpace(ch) == ch = " "
IsDigit(ch) == ch \in {"1", "2"}
IsLowerAlnum(ch) == ch \in {"a", "b", "1", "2"}
LowerCh(ch) == IF ch = "A" THEN "a" ELSE IF ch = "B" THEN "b" ELSE ch

RECURSIVE LStrip(_)
LStrip(s) == IF s # <<>> /\ IsSpace(s[1]) THEN LStrip(Tail(s)) ELSE s

RECURSIVE RStrip(_)
RStrip(s) ==
    IF s # <<>> /\ IsSpace(s[Len(s)]) THEN RStrip(SubSeq(s, 1, Len(s) - 1)) ELSE s

\* str.strip()
strip(s) == RStrip(LStrip(s))

\* str.lower()
lower(s) == [i \in 1..Len(s) |-> LowerCh(s[i])]

clean(x) == IF isna(x) THEN Empty ELSE strip(Str(x))

key_addr(x) == SelectSeq(lower(clean(x)), IsLowerAlnum)

key_tax(x) == SelectSeq(clean(x), IsDigit)

key_email(x) == lower(clean(x))

----------------------------------------------------------------------------
(* rules.py *)

MERGE_COLS ==
    << "First Name", "Last Name", "Email", "Country Code", "Phone Number",
       "Date of Birth", "Address Line", "Suburb", "Postcode", "City", "Country",
       "PIR %", "WHT %", "Tax Identification Number" >>

OUT_COLS == <<"Account ID">> \o MERGE_COLS

Range(s) == {s[i] : i \in 1..Len(s)}

\* row.get(c, "")
Get(r, c) == IF c \in DOMAIN r THEN r[c] ELSE Empty

EmptyTable == [columns |-> {}, rows |-> <<>>]

\* The RangeIndex of a table
Index(t) == 0..(Len(t.rows) - 1)

----------------------------------------------------------------------------
(* DSU *)

DSUInit(idx) == [i \in idx |-> i]

\* find: path halving; the parent map after the call and the root found
RECURSIVE find(_, _)
find(q, x) ==
    IF q[x] = x THEN [p |-> q, r |-> x]
    ELSE LET q2 == [q EXCEPT ![x] = q[q[x]]]
         IN find(q2, q2[x])

unionWrongSide(q, a, b) ==
    LET fa == find(q, a)
        fb == find(fa.p, b)
    IN IF fa.r # fb.r THEN [fb.p EXCEPT ![fa.r] = fb.r] ELSE fb.p

union(q, a, b) ==
    LET fa == find(q, a)
        fb == find(fa.p, b)
    IN IF fa.r # fb.r THEN [fb.p EXCEPT ![fb.r] = fa.r] ELSE fb.p

\* The root of x in a parent map, with no compression
RECURSIVE Root(_, _)
Root(q, x) == IF q[x] = x THEN x ELSE Root(q, q[x])

----------------------------------------------------------------------------
(* merge_all: keys and blocks *)

KeyCols == <<"Address Line", "Tax Identification Number", "Email">>

\* df.get(col, "") is the string "" when the column is absent, and has no .map
KeyColsPresent(t) == Range(KeyCols) \subseteq t.columns

\* df["_ak"], df["_tx"], df["_em"]
WithKeys(t) ==
    [columns |-> t.columns \cup {"_ak", "_tx", "_em"},
     rows |-> [i \in 1..Len(t.rows) |->
        LET r == t.rows[i]
        IN [c \in t.columns \cup {"_ak", "_tx", "_em"} |->
              IF c = "_ak" THEN key_addr(r["Address Line"])
              ELSE IF c = "_tx" THEN key_tax(r["Tax Identification Number"])
              ELSE IF c = "_em" THEN key_email(r["Email"])
              ELSE r[c]]]]

\* The five (tag, value) pairs of a row, in the fixed tag order
AllKeys(r) ==
    << <<"PH", clean(Get(r, "Phone Number"))>>,
       <<"DOB", clean(Get(r, "Date of Birth"))>>,
       <<"ADDR", clean(Get(r, "_ak"))>>,
       <<"TAX", clean(Get(r, "_tx"))>>,
       <<"EMAIL", clean(Get(r, "_em"))>> >>

NonEmptyKey(kv) == kv[2] # Empty

RowKeysKeepEmpty(r) == AllKeys(r)

\* keys = [(k, v) for k, v in keys if v]
RowKeys(r) == SelectSeq(AllKeys(r), NonEmptyKey)

\* range(len), range(a + 1, len), range(b + 1, len): the index triples a < b < c
\* of a list of n <= 5 keys, in the order the three loops visit them
AllTriples ==
    << <<1, 2, 3>>, <<1, 2, 4>>, <<1, 2, 5>>, <<1, 3, 4>>, <<1, 3, 5>>,
       <<1, 4, 5>>, <<2, 3, 4>>, <<2, 3, 5>>, <<2, 4, 5>>, <<3, 4, 5>> >>

Triples(n) == SelectSeq(AllTriples, LAMBDA t : t[3] <= n)

\* k = (tag, keys[a][1], keys[b][1], keys[c][1]) for the index triple t
BlockKey(keys, t) ==
    << <<keys[t[1]][1], keys[t[2]][1], keys[t[3]][1]>>,
       keys[t[1]][2], keys[t[2]][2], keys[t[3]][2] >>

RECURSIVE BlockKeysFrom(_, _, _)
BlockKeysFrom(keys, ts, x) ==
    IF x > Len(ts) THEN <<>>
    ELSE <<BlockKey(keys, ts[x])>> \o BlockKeysFrom(keys, ts, x + 1)

\* The block keys of a row, in the order the three loops make them
BlockKeys(r) == BlockKeysFrom(RowKeys(r), Triples(Len(RowKeys(r))), 1)

\* blocks.setdefault(k, []).append(i)
AddToBlock(bs, k, i) ==
    IF \E x \in 1..Len(bs) : bs[x].k = k
    THEN LET x == CHOOSE y \in 1..Len(bs) : bs[y].k = k
         IN [bs EXCEPT ![x].ids = Append(@, i)]
    ELSE Append(bs, [k |-> k, ids |-> <<i>>])

RECURSIVE AddRowBlocks(_, _, _, _)
AddRowBlocks(bs, ks, x, i) ==
    IF x > Len(ks) THEN bs ELSE AddRowBlocks(AddToBlock(bs, ks[x], i), ks, x + 1, i)

\* One pass of "for i, r in df.iterrows()": the blocks with row i indexed
IndexRow(bs, t, i) == AddRowBlocks(bs, BlockKeys(t.rows[i + 1]), 1, i)

\* The dsu.union(head, j) calls of one block: head = ids[0], j in ids[1:]
BlockCallsDropLast(ids) == [x \in 1..(Len(ids) - 2) |-> <<ids[1], ids[x + 1]>>]

BlockCalls(ids) == [x \in 1..(Len(ids) - 1) |-> <<ids[1], ids[x + 1]>>]

\* for ids in blocks.values(): ... , as the sequence of union calls it makes
RECURSIVE UnionCallsFrom(_, _)
UnionCallsFrom(bs, x) ==
    IF x > Len(bs) THEN <<>> ELSE BlockCalls(bs[x].ids) \o UnionCallsFrom(bs, x + 1)

UnionCalls(bs) == UnionCallsFrom(bs, 1)

----------------------------------------------------------------------------
(* merge_all: clusters *)

\* clusters.setdefault(root, []).append(i)
AddToCluster(cs, root, i) ==
    IF \E x \in 1..Len(cs) : cs[x].root = root
    THEN LET x == CHOOSE y \in 1..Len(cs) : cs[y].root = root
         IN [cs EXCEPT ![x].idxs = Append(@, i)]
    ELSE Append(cs, [root |-> root, idxs |-> <<i>>])

\* for i in df.index: clusters.setdefault(dsu.find(i), []).append(i)
RECURSIVE ClustersFrom(_, _, _, _)
ClustersFrom(cs, q, i, n) ==
    IF i >= n THEN [clusters |-> cs, p |-> q]
    ELSE LET f == find(q, i)
         IN ClustersFrom(AddToCluster(cs, f.r, i), f.p, i + 1, n)

BuildClustersSkipFirst(q, n) == ClustersFrom(<<>>, q, 1, n)

RECURSIVE SortByRoot(_)
SortByRoot(cs) ==
    IF cs = <<>> THEN <<>>
    ELSE LET m == CHOOSE x \in 1..Len(cs) : \A y \in 1..Len(cs) : cs[x].root <= cs[y].root
         IN <<cs[m]>> \o SortByRoot(SubSeq(cs, 1, m - 1) \o SubSeq(cs, m + 1, Len(cs)))

BuildClustersByRoot(q, n) ==
    LET b == ClustersFrom(<<>>, q, 0, n)
    IN [clusters |-> SortByRoot(b.clusters), p |-> b.p]

BuildClustersOf(q, n) == ClustersFrom(<<>>, q, 0, n)

----------------------------------------------------------------------------
(* merge_cluster *)

\* df.loc[idxs]: the rows of a cluster, each with its index
Loc(t, idxs) == [x \in 1..Len(idxs) |-> [idx |-> idxs[x], row |-> t.rows[idxs[x] + 1]]]

\* sum(1 for c in MERGE_COLS if clean(r.get(c, "")))
Score(r) == Cardinality({x \in 1..Len(MERGE_COLS) : clean(Get(r, MERGE_COLS[x])) # Empty})

\* scores.idxmax(): the position of the first row with the largest score
RECURSIVE IdxMaxLastFrom(_, _, _)
IdxMaxLastFrom(g, x, best) ==
    IF x > Len(g) THEN best
    ELSE IdxMaxLastFrom(g, x + 1, IF Score(g[x].row) >= Score(g[best].row) THEN x ELSE best)

IdxMaxLast(g) == IdxMaxLastFrom(g, 2, 1)

RECURSIVE IdxMaxFrom(_, _, _)
IdxMaxFrom(g, x, best) ==
    IF x > Len(g) THEN best
    ELSE IdxMaxFrom(g, x + 1, IF Score(g[x].row) > Score(g[best].row) THEN x ELSE best)

IdxMax(g) == IdxMaxFrom(g, 2, 1)

\* survivor = g.loc[scores.idxmax()]
Survivor(g) == g[IdxMax(g)]

\* first_nonempty(g[c])
RECURSIVE FirstNonEmptyFrom(_, _, _)
FirstNonEmptyFrom(g, c, x) ==
    IF x > Len(g) THEN Empty
    ELSE IF clean(g[x].row[c]) # Empty THEN clean(g[x].row[c])
    ELSE FirstNonEmptyFrom(g, c, x + 1)

first_nonempty(g, c) == FirstNonEmptyFrom(g, c, 1)

\* out[c] = sv if sv else first_nonempty(g[c]) if c in g.columns else ""
MergeValueSurvivorOnly(g, c) == clean(Get(Survivor(g).row, c))

MergeValue(g, c) ==
    LET sv == clean(Get(Survivor(g).row, c))
    IN IF sv # Empty THEN sv
       ELSE IF c \in DOMAIN g[1].row THEN first_nonempty(g, c)
       ELSE Empty

merge_cluster(g) == [c \in Range(MERGE_COLS) |-> MergeValue(g, c)]

\* pd.DataFrame([merge_cluster(df.loc[idxs]) for idxs in clusters.values()])
MergedTable(t, cs) ==
    [columns |-> IF cs = <<>> THEN {} ELSE Range(MERGE_COLS),
     rows |-> [x \in 1..Len(cs) |-> merge_cluster(Loc(t, cs[x].idxs))]]

----------------------------------------------------------------------------
(* Required-field backfill *)

\* The placeholder literals, each written as one token
PLACEHOLDER_MERGE == <<"NOT AVAILABLE">>
PLACEHOLDER_REGISTRY == <<"NO DATA AVAILABLE">>

\* merge.py: out[c] = "" when absent; out[c].map(lambda v: v if clean(v) else PLACEHOLDER)
MergeBackfill(t, req) ==
    [columns |-> t.columns \cup req,
     rows |-> [i \in 1..Len(t.rows) |->
        [c \in t.columns \cup req |->
           IF c \in req
           THEN IF clean(Get(t.rows[i], c)) # Empty THEN t.rows[i][c] ELSE PLACEHOLDER_MERGE
           ELSE t.rows[i][c]]]]

\* build_registry.py: df[c] = PLACEHOLDER when absent; else
\* df[c].map(lambda v: v if isinstance(v, str) and v.strip() != "" else PLACEHOLDER)
RegistryBackfillNoStrip(t, req) ==
    [columns |-> t.columns \cup req,
     rows |-> [i \in 1..Len(t.rows) |->
        [c \in t.columns \cup req |->
           IF c \in req
           THEN IF c \notin t.columns THEN PLACEHOLDER_REGISTRY
                ELSE IF isinstance_str(t.rows[i][c]) /\ t.rows[i][c] # Empty
                     THEN t.rows[i][c] ELSE PLACEHOLDER_REGISTRY
           ELSE t.rows[i][c]]]]

RegistryBackfill(t, req) ==
    [columns |-> t.columns \cup req,
     rows |-> [i \in 1..Len(t.rows) |->
        [c \in t.columns \cup req |->
           IF c \in req
           THEN IF c \notin t.columns THEN PLACEHOLDER_REGISTRY
                ELSE IF isinstance_str(t.rows[i][c]) /\ strip(t.rows[i][c]) # Empty
                     THEN t.rows[i][c] ELSE PLACEHOLDER_REGISTRY
           ELSE t.rows[i][c]]]]

----------------------------------------------------------------------------
(* main of merge.py *)

\* for c in MERGE_COLS: if c not in df.columns: df[c] = ""
EnsureMergeCols(t) ==
    [columns |-> t.columns \cup Range(MERGE_COLS),
     rows |-> [i \in 1..Len(t.rows) |->
        [c \in t.columns \cup Range(MERGE_COLS) |-> Get(t.rows[i], c)]]]

\* out.insert(0, "Account ID", range(1, len(out) + 1)); the missing OUT_COLS
\* added empty; out = out[OUT_COLS]
WithAccountIds(t) ==
    [columns |-> Range(OUT_COLS),
     rows |-> [i \in 1..Len(t.rows) |->
        [c \in Range(OUT_COLS) |->
           IF c = "Account ID" THEN IntVal(i) ELSE Get(t.rows[i], c)]]]

OUT_DIR == "out"
OUT_CSV == "out/merged.csv"

----------------------------------------------------------------------------
(* The input tables *)

MkRow(fn, ln, em, ph, dob, addr, sub, tax) ==
    [c \in Range(MERGE_COLS) |->
       CASE c = "First Name" -> fn
         [] c = "Last Name" -> ln
         [] c = "Email" -> em
         [] c = "Phone Number" -> ph
         [] c = "Date of Birth" -> dob
         [] c = "Address Line" -> addr
         [] c = "Suburb" -> sub
         [] c = "Tax Identification Number" -> tax
         [] OTHER -> Empty]

\* Rows of the standardized table.  Row1..Row3 are the three rows of the
\* documented example, written with spellings that differ before normalization.
SampleRows ==
    { MkRow(<<"a">>, <<"b">>, Empty, <<"1">>, <<"1">>, <<"a", "1">>, Empty, Empty),
      MkRow(Empty, Empty, <<"a">>, <<" ", "1">>, <<"1">>, <<"A", "-", "1">>,
            Empty, <<"1", "2">>),
      MkRow(<<"b">>, Empty, <<"A", " ">>, Empty, Empty, <<"-">>, Empty, <<"1", "-", "2">>),
      MkRow(Empty, <<"a">>, <<"a">>, Empty, <<" ">>, <<"a", "1">>, <<"a">>, <<"1", "2">>),
      MkRow(<<" ">>, Empty, Empty, <<"2">>, <<"2">>, <<"a", "1">>, Empty, <<"1", "2">>) }

TablesUpTo(k) ==
    UNION {[columns : {Range(MERGE_COLS)}, rows : [1..n -> SampleRows]] : n \in 0..k}

Tables == TablesUpTo(MaxRows)

\* A table without the columns of d
Without(t, d) ==
    [columns |-> t.columns \ d,
     rows |-> [i \in 1..Len(t.rows) |-> [c \in t.columns \ d |-> t.rows[i][c]]]]

\* The columns a standardized file may lack
DroppedCols == {"Email", "Address Line", "City"}

InputTables == Tables \cup {Without(t, DroppedCols) : t \in TablesUpTo(MaxRowsDropped)}

\* REQUIRED_COLS, as schema.yaml may give it for the investors table
RequiredOptions == { {"First Name", "Email", "Account ID"} }

NoFile == [kind |-> "missing", table |-> EmptyTable]
NoWorkbook == [exists |-> FALSE, sheets |-> <<>>, header_row |-> 1]

----------------------------------------------------------------------------
(* merge.py as a state machine *)

Init ==
    /\ pc = "start"
    /\ src \in {NoFile} \cup {[kind |-> "file", table |-> t] : t \in InputTables}
    /\ required \in RequiredOptions
    /\ df = EmptyTable
    /\ blocks = <<>>
    /\ p = <<>>
    /\ ri = 0
    /\ ui = 0
    /\ made = {}
    /\ clusters = <<>>
    /\ out = EmptyTable
    /\ xls = NoWorkbook
    /\ fs0 = {}
    /\ fs = {}

\* main: the input check and pd.read_csv
ReadInput ==
    /\ pc = "start"
    /\ IF src.kind = "file"
       THEN /\ df' = src.table
            /\ pc' = "ensure"
       ELSE /\ df' = df
            /\ pc' = "raised"
    /\ UNCHANGED <<src, blocks, p, ri, ui, made, clusters, out, required, xls, fs0, fs>>

\* main: ensure expected columns exist
EnsureColumns ==
    /\ pc = "ensure"
    /\ df' = EnsureMergeCols(df)
    /\ pc' = "merge_all"
    /\ UNCHANGED <<src, blocks, p, ri, ui, made, clusters, out, required, xls, fs0, fs>>

\* merge_all: the three key columns; the .map of an absent column raises
DeriveKeys ==
    /\ pc = "merge_all"
    /\ IF KeyColsPresent(df)
       THEN /\ df' = WithKeys(df)
            /\ pc' = "dsu"
       ELSE /\ df' = df
            /\ pc' = "raised"
    /\ UNCHANGED <<src, blocks, p, ri, ui, made, clusters, out, required, xls, fs0, fs>>

\* merge_all: dsu, blocks = DSU(df.index), {}
NewDSU ==
    /\ pc = "dsu"
    /\ p' = DSUInit(Index(df))
    /\ blocks' = <<>>
    /\ ri' = 0
    /\ ui' = 0
    /\ pc' = IF Len(df.rows) = 0 THEN "union" ELSE "blocks"
    /\ UNCHANGED <<src, df, made, clusters, out, required, xls, fs0, fs>>

\* merge_all: one pass of the blocking loop, the 3-field combinations of row ri
BlockRow ==
    /\ pc = "blocks"
    /\ blocks' = IndexRow(blocks, df, ri)
    /\ ri' = ri + 1
    /\ pc' = IF ri + 1 = Len(df.rows) THEN "union" ELSE "blocks"
    /\ UNCHANGED <<src, df, p, ui, made, clusters, out, required, xls, fs0, fs>>

\* merge_all: the next dsu.union(head, j) of the union loop
UnionStep ==
    /\ pc = "union"
    /\ ui < Len(UnionCalls(blocks))
    /\ LET call == UnionCalls(blocks)[ui + 1]
       IN p' = union(p, call[1], call[2])
    /\ ui' = ui + 1
    /\ UNCHANGED <<pc, src, df, blocks, ri, made, clusters, out, required, xls, fs0, fs>>

\* merge_all: build clusters
BuildClusters ==
    /\ pc = "union"
    /\ ui = Len(UnionCalls(blocks))
    /\ LET b == BuildClustersOf(p, Len(df.rows))
       IN /\ clusters' = b.clusters
          /\ p' = b.p
    /\ pc' = "merge"
    /\ UNCHANGED <<src, df, blocks, ri, ui, made, out, required, xls, fs0, fs>>

\* merge_all: one merged record per cluster; back in main when main made the call
MergeClusters ==
    /\ pc = "merge"
    /\ out' = MergedTable(df, clusters)
    /\ pc' = IF src.kind = "file" THEN "ids" ELSE "returned"
    /\ UNCHANGED <<src, df, blocks, p, ri, ui, made, clusters, required, xls, fs0, fs>>

\* main: Account ID and the output columns
AssignIds ==
    /\ pc = "ids"
    /\ out' = WithAccountIds(out)
    /\ pc' = "backfill"
    /\ UNCHANGED <<src, df, blocks, p, ri, ui, made, clusters, required, xls, fs0, fs>>

\* main: apply_required_placeholders
Backfill ==
    /\ pc = "backfill"
    /\ out' = MergeBackfill(out, required)
    /\ pc' = "write"
    /\ UNCHANGED <<src, df, blocks, p, ri, ui, made, clusters, required, xls, fs0, fs>>

\* main: mkdir and to_csv
WriteOutput ==
    /\ pc = "write"
    /\ fs' = fs \cup {OUT_DIR, OUT_CSV}
    /\ pc' = "done"
    /\ UNCHANGED <<src, df, blocks, p, ri, ui, made, clusters, out, required, xls, fs0>>

MergeAllNext ==
    \/ DeriveKeys
    \/ NewDSU
    \/ BlockRow
    \/ UnionStep
    \/ BuildClusters
    \/ MergeClusters

Next ==
    \/ ReadInput
    \/ EnsureColumns
    \/ MergeAllNext
    \/ AssignIds
    \/ Backfill
    \/ WriteOutput

Spec == Init /\ [][Next]_vars

----------------------------------------------------------------------------
(* What the claims speak of, stated on the input file *)

InRows == src.table.rows
InIndex == Index(src.table)

\* The normalized match key of a row for one of the five designated fields
MatchKey(r, tag) ==
    CASE tag = "PH" -> clean(Get(r, "Phone Number"))
      [] tag = "DOB" -> clean(Get(r, "Date of Birth"))
      [] tag = "ADDR" -> key_addr(Get(r, "Address Line"))
      [] tag = "TAX" -> key_tax(Get(r, "Tax Identification Number"))
      [] tag = "EMAIL" -> key_email(Get(r, "Email"))

Tags == {"PH", "DOB", "ADDR", "TAX", "EMAIL"}

\* The fields on which two rows agree with a non-empty key
AgreeOn(i, j) ==
    {t \in Tags : /\ MatchKey(InRows[i + 1], t) # Empty
                  /\ MatchKey(InRows[i + 1], t) = MatchKey(InRows[j + 1], t)}

Linked(i, j) == Cardinality(AgreeOn(i, j)) >= 3

PresentKeys(i) == {t \in Tags : MatchKey(InRows[i + 1], t) # Empty}

\* The pairs of rows that agree on at least 3 non-empty keys
LinkPairs ==
    UNION {IF pr[1] < pr[2] /\ Linked(pr[1], pr[2]) THEN {pr, <<pr[2], pr[1]>>} ELSE {} :
             pr \in InIndex \X InIndex}

\* The rows a chain of links of L reaches from the rows of S
RECURSIVE Reach(_, _)
Reach(L, S) ==
    LET T == S \cup {pr[2] : pr \in {q \in L : q[1] \in S}}
    IN IF T = S THEN S ELSE Reach(L, T)

\* Number of merge columns with a non-empty trimmed value
Completeness(i) ==
    Cardinality({c \in Range(MERGE_COLS) : clean(Get(InRows[i + 1], c)) # Empty})

SetMin(S) == CHOOSE m \in S : \A x \in S : m <= x

\* p, clusters and out are left as they are by the steps that follow the one
\* that sets them, so each is looked at where it is set
DsuBuilt == pc \in {"union", "merge"}
UnionsDone == (pc = "union" /\ ui = Len(UnionCalls(blocks))) \/ pc = "merge"
Clustered == pc = "merge"
Merged == pc \in {"ids", "returned"}

ClusterSet(x) == Range(clusters[x].idxs)
ClusterOf(i) == CHOOSE x \in 1..Len(clusters) : i \in ClusterSet(x)

\* The member a cluster's merge must start from: the most complete, the
\* earliest among the most complete
BestMember(S) ==
    CHOOSE s \in S : \A m \in S :
        \/ Completeness(m) < Completeness(s)
        \/ Completeness(m) = Completeness(s) /\ s <= m

\* The record a cluster S must merge to: in each merge column the trimmed value
\* of the best member when non-empty, else the first non-empty trimmed value in
\* ascending row index, else the empty string
ExpectedRecord(S) ==
    LET b == BestMember(S)
    IN [c \in Range(MERGE_COLS) |->
          LET sv == clean(Get(InRows[b + 1], c))
              filled == {m \in S : clean(Get(InRows[m + 1], c)) # Empty}
          IN IF sv # Empty THEN sv
             ELSE IF filled # {} THEN clean(Get(InRows[SetMin(filled) + 1], c))
             ELSE Empty]

MergeColsOf(r) == [c \in Range(MERGE_COLS) |-> r[c]]

----------------------------------------------------------------------------
(* Claims on merge.py *)

\* C1 (partition): once merge_all has built its clusters, no cluster is empty,
\* no row index is in two clusters or twice in one, and the clusters together
\* hold exactly the row indices of the input, the empty input included.
C1_Partition ==
    Clustered =>
        /\ \A x \in 1..Len(clusters) :
              /\ clusters[x].idxs # <<>>
              /\ Cardinality(ClusterSet(x)) = Len(clusters[x].idxs)
        /\ \A x, y \in 1..Len(clusters) : x # y => ClusterSet(x) \cap ClusterSet(y) = {}
        /\ UNION {ClusterSet(x) : x \in 1..Len(clusters)} = InIndex

C1_Witness ==
    /\ Clustered
    /\ Len(InRows) = 4
    /\ Len(clusters) = 2
    /\ \E x \in 1..2 : Len(clusters[x].idxs) = 3

\* C2 (link threshold): once the union loop has run, two rows that agree on the
\* non-empty normalized keys of at least 3 of the 5 fields have the same DSU
\* root, and are listed in the same cluster once clusters are built.
C2_LinkThreshold ==
    UnionsDone =>
        \A i, j \in InIndex :
            (i < j /\ Linked(i, j)) =>
                /\ Root(p, i) = Root(p, j)
                /\ Clustered => ClusterOf(i) = ClusterOf(j)

C2_Witness ==
    /\ Clustered
    /\ \E i, j \in InIndex :
          /\ i # j
          /\ Cardinality(AgreeOn(i, j)) = 3
          /\ InRows[i + 1] # InRows[j + 1]
          /\ ClusterOf(i) = ClusterOf(j)

\* C3 (no over-merging): at every point of the union phase and after it, two
\* rows with the same root (the same cluster) are joined by a chain of rows in
\* which each consecutive pair agrees on at least 3 non-empty keys; a row with
\* fewer than 3 present keys is alone in its cluster.
C3_NoOverMerging ==
    DsuBuilt =>
        LET L == LinkPairs
        IN /\ \A i, j \in InIndex :
                 (i < j /\ Root(p, i) = Root(p, j)) => j \in Reach(L, {i})
           /\ Clustered =>
                 \A x \in 1..Len(clusters) : \A i, j \in ClusterSet(x) :
                     /\ i < j => j \in Reach(L, {i})
                     /\ i # j => Cardinality(PresentKeys(i)) >= 3

\* Rows sharing exactly two keys, one of them with two present keys only, end in
\* different clusters while another pair of the table is merged.
C3_Witness ==
    /\ Clustered
    /\ \E i, j, k \in InIndex :
          /\ Cardinality(AgreeOn(i, j)) = 2
          /\ Cardinality(PresentKeys(j)) = 2
          /\ ClusterOf(i) # ClusterOf(j)
          /\ k # i
          /\ ClusterOf(k) = ClusterOf(i)

\* C4 (merge completeness): merge_all returns one record per cluster, and in
\* each merge column it holds the trimmed value of the cluster's most complete
\* (earliest on a tie) member when that is non-empty, else the first non-empty
\* trimmed value of the members in ascending row index, else the empty string.
C4_MergeCompleteness ==
    Merged =>
        /\ Len(out.rows) = Len(clusters)
        /\ \A x \in 1..Len(clusters) :
              MergeColsOf(out.rows[x]) = ExpectedRecord(ClusterSet(x))

\* A merged value that comes from a member other than the survivor
C4_Witness ==
    /\ Merged
    /\ \E x \in 1..Len(clusters) : \E c \in Range(MERGE_COLS) :
          /\ clean(Get(InRows[BestMember(ClusterSet(x)) + 1], c)) = Empty
          /\ out.rows[x][c] # Empty

\* C5 (survivor selection): the survivor merge_cluster picks for a cluster is a
\* member of it, no member has a larger completeness score, and no member with
\* the same score has a smaller row index.
C5_SurvivorSelection ==
    Clustered =>
        \A x \in 1..Len(clusters) :
            LET s == Survivor(Loc(df, clusters[x].idxs)).idx
            IN /\ s \in ClusterSet(x)
               /\ \A m \in ClusterSet(x) :
                     /\ Completeness(m) <= Completeness(s)
                     /\ Completeness(m) = Completeness(s) => s <= m

\* A cluster whose two most complete members differ and tie
C5_Witness ==
    /\ Clustered
    /\ \E x \in 1..Len(clusters) :
          LET s == Survivor(Loc(df, clusters[x].idxs)).idx
          IN \E m \in ClusterSet(x) :
                /\ m # s
                /\ Completeness(m) = Completeness(s)
                /\ InRows[m + 1] # InRows[s + 1]

\* C7 (identifiers): after main has numbered the merged rows there is one row
\* per cluster, row k has Account ID k, and row k is the merge of the cluster
\* whose smallest row index is the k-th smallest, whatever its root is; the
\* Account IDs stay as they are through the backfill.
KthCluster(k) ==
    LET sets == {ClusterSet(x) : x \in 1..Len(clusters)}
    IN CHOOSE S \in sets : Cardinality({T \in sets : SetMin(T) < SetMin(S)}) = k - 1

C7_Identifiers ==
    pc \in {"backfill", "write", "done"} =>
        /\ Len(out.rows) = Len(clusters)
        /\ \A k \in 1..Len(out.rows) :
              /\ out.rows[k]["Account ID"] = IntVal(k)
              /\ pc = "backfill" =>
                    MergeColsOf(out.rows[k]) = ExpectedRecord(KthCluster(k))

\* Two clusters, the first with a root that is neither its smallest member nor
\* smaller than the root of the second
C7_Witness ==
    /\ pc = "backfill"
    /\ Len(clusters) = 2
    /\ clusters[1].root # SetMin(ClusterSet(1))
    /\ clusters[1].root > clusters[2].root
    /\ out.rows[1] # out.rows[2]

----------------------------------------------------------------------------
(* merge_all called on a table of the caller's, with no main before it *)

\* The columns such a table may lack
FrameDrops == { {}, {"Phone Number", "Suburb"}, {"Address Line"}, {"Email", "City"} }

Frames(ts) == {[kind |-> "frame", table |-> t] : t \in ts}

InitFrame(ts) ==
    /\ pc = "merge_all"
    /\ src \in Frames(ts)
    /\ df = src.table
    /\ required = {}
    /\ blocks = <<>>
    /\ p = <<>>
    /\ ri = 0
    /\ ui = 0
    /\ made = {}
    /\ clusters = <<>>
    /\ out = EmptyTable
    /\ xls = NoWorkbook
    /\ fs0 = {}
    /\ fs = {}

InitMergeAll ==
    InitFrame({Without(t, d) : t \in TablesUpTo(MaxRowsDropped), d \in FrameDrops})

SpecMergeAll == InitMergeAll /\ [][MergeAllNext]_vars

C8_OtherColumnsTolerated ==
    /\ pc = "raised" => ~KeyColsPresent(src.table)
    /\ pc = "returned" =>
          LET L == LinkPairs
          IN /\ Len(out.rows) = Len(clusters)
             /\ \A x \in 1..Len(clusters) :
                   /\ ClusterSet(x) = Reach(L, {clusters[x].idxs[1]})
                   /\ out.rows[x] = ExpectedRecord(ClusterSet(x))

----------------------------------------------------------------------------
(* The union phase with the dsu.union calls made in any order, and find *)
(* called at any time                                                    *)

\* The number of dsu.union calls the blocks of a table lead to: one per row of
\* a block but its first
CallCount(t) ==
    LET rows == WithKeys(EnsureMergeCols(t)).rows
        keysOf(i) == Range(BlockKeys(rows[i]))
        entries == UNION {{<<k, i>> : k \in keysOf(i)} : i \in 1..Len(rows)}
    IN Cardinality(entries) - Cardinality({e[1] : e \in entries})

InitOrder == InitFrame({t \in TablesUpTo(MaxRowsOrder) : CallCount(t) <= MaxCalls})

\* One of the dsu.union(head, j) calls of the union loop, not made yet
UnionAny ==
    /\ pc = "union"
    /\ \E c \in (1..Len(UnionCalls(blocks))) \ made :
          /\ p' = union(p, UnionCalls(blocks)[c][1], UnionCalls(blocks)[c][2])
          /\ made' = made \cup {c}
    /\ UNCHANGED <<pc, src, df, blocks, ri, ui, clusters, out, required, xls, fs0, fs>>

\* dsu.find(x), for the parent map it leaves
FindAny ==
    /\ pc = "union"
    /\ \E x \in DOMAIN p :
          /\ p' = find(p, x).p
          /\ p' # p
    /\ UNCHANGED <<pc, src, df, blocks, ri, ui, made, clusters, out, required, xls, fs0, fs>>

OrderNext ==
    \/ DeriveKeys
    \/ NewDSU
    \/ BlockRow
    \/ UnionAny
    \/ FindAny

SpecOrder == InitOrder /\ [][OrderNext]_vars

AllMade == pc = "union" /\ made = 1..Len(UnionCalls(blocks))

\* Whatever the order of the calls: once all are made, the rows of a block have
\* one root, and two rows have one root exactly when a chain of links joins them
SamePartition ==
    AllMade =>
        LET L == LinkPairs
        IN /\ \A x \in 1..Len(blocks) : \A i, j \in Range(blocks[x].ids) :
                 Root(p, i) = Root(p, j)
           /\ \A i, j \in InIndex :
                 i < j => (Root(p, i) = Root(p, j) <=> j \in Reach(L, {i}))

\* A step that calls union(a, b): with ra, rb the roots of a and b, nothing
\* changes the roots when ra = rb; otherwise rb gets the parent ra, ra stays a
\* root, the rows under rb get the root ra and no other row changes its root
UnionEffect ==
    made' # made =>
        LET c == CHOOSE c \in made' \ made : TRUE
            ra == Root(p, UnionCalls(blocks)[c][1])
            rb == Root(p, UnionCalls(blocks)[c][2])
        IN IF ra = rb
           THEN \A x \in DOMAIN p : Root(p', x) = Root(p, x)
           ELSE /\ p'[rb] = ra
                /\ p'[ra] = ra
                /\ \A x \in DOMAIN p :
                      Root(p', x) = IF Root(p, x) = rb THEN ra ELSE Root(p, x)

\* A step that only calls find: find returns the root, and its path
\* compression changes no row's root
FindEffect ==
    (pc = "union" /\ pc' = "union" /\ made' = made) =>
        /\ \A x \in DOMAIN p : find(p, x).r = Root(p, x)
        /\ \A x \in DOMAIN p : Root(p', x) = Root(p, x)

\* C10 (chain union is order-independent): union(a, b) re-parents root(b) under
\* root(a) and changes no other root; after all chain unions, made in any order,
\* each block's members have one root and the partition is the one by chains of
\* links, the same for every order; path compression changes no root.
C10_OrderIndependent ==
    /\ []SamePartition
    /\ [][UnionEffect /\ FindEffect]_vars

\* The calls union(0, 2), union(1, 2) made in the other order than the loop's:
\* the root is row 0, where the loop's order makes it row 1
C10_Witness ==
    /\ AllMade
    /\ UnionCalls(blocks) = << <<0, 2>>, <<1, 2>> >>
    /\ blocks[1].ids = <<0, 2>>
    /\ blocks[2].ids = <<1, 2>>
    /\ \A i \in InIndex : Root(p, i) = 0

----------------------------------------------------------------------------
(* The two apply_required_placeholders, each called on a table *)

\* Cells a table may hold before a backfill
CellValues ==
    {Empty, <<" ">>, <<" ", "a">>, NaN, IntVal(1), PLACEHOLDER_MERGE, PLACEHOLDER_REGISTRY}

\* Tables of the merged investors, with and without the column "Email"
InvestorTables ==
    UNION {[columns : {{"First Name", "Email"}},
            rows : [1..n -> [{"First Name", "Email"} -> CellValues]]] \cup
           [columns : {{"First Name"}},
            rows : [1..n -> [{"First Name"} -> CellValues]]] : n \in 0..MaxBackfillRows}

\* Tables of the registry scaffold, with and without the column "Fund Name"
RegistryTables ==
    UNION {[columns : {{"Investor ID", "Fund Name"}},
            rows : [1..n -> [{"Investor ID", "Fund Name"} -> CellValues]]] \cup
           [columns : {{"Investor ID"}},
            rows : [1..n -> [{"Investor ID"} -> CellValues]]] : n \in 0..MaxBackfillRows}

InitBackfill ==
    /\ pc = "call"
    /\ \/ /\ src \in {[kind |-> "investors", table |-> t] : t \in InvestorTables}
          /\ required \in SUBSET {"First Name", "Email", "Phone Number"}
       \/ /\ src \in {[kind |-> "registry", table |-> t] : t \in RegistryTables}
          /\ required \in SUBSET {"Investor ID", "Fund Name", "Unit Price"}
    /\ df = EmptyTable
    /\ blocks = <<>>
    /\ p = <<>>
    /\ ri = 0
    /\ ui = 0
    /\ made = {}
    /\ clusters = <<>>
    /\ out = EmptyTable
    /\ xls = NoWorkbook
    /\ fs0 = {}
    /\ fs = {}

\* merge.py: apply_required_placeholders(out)
BackfillInvestors ==
    /\ pc = "call"
    /\ src.kind = "investors"
    /\ out' = MergeBackfill(src.table, required)
    /\ pc' = "backfilled"
    /\ UNCHANGED <<src, df, blocks, p, ri, ui, made, clusters, required, xls, fs0, fs>>

\* build_registry.py: apply_required_placeholders(registry)
BackfillRegistry ==
    /\ pc = "call"
    /\ src.kind = "registry"
    /\ out' = RegistryBackfill(src.table, required)
    /\ pc' = "backfilled"
    /\ UNCHANGED <<src, df, blocks, p, ri, ui, made, clusters, required, xls, fs0, fs>>

BackfillNext ==
    \/ BackfillInvestors
    \/ BackfillRegistry

SpecBackfill == InitBackfill /\ [][BackfillNext]_vars

StageLiteral == IF src.kind = "investors" THEN PLACEHOLDER_MERGE ELSE PLACEHOLDER_REGISTRY
OtherLiteral == IF src.kind = "investors" THEN PLACEHOLDER_REGISTRY ELSE PLACEHOLDER_MERGE

\* A cell that is the empty string or whitespace only
IsBlank(v) == isinstance_str(v) /\ strip(v) = Empty

\* C6 (backfill totality): after either apply_required_placeholders the table
\* has every required column, with the rows it had; in every row each required
\* cell is non-empty; a cell that was blank, or whose column was absent, holds
\* the literal of the stage; a required cell holds the literal of the other
\* stage only if it held it before, and the cells of the other columns are as
\* they were.
C6_BackfillTotality ==
    pc = "backfilled" =>
        /\ out.columns = src.table.columns \cup required
        /\ Len(out.rows) = Len(src.table.rows)
        /\ \A i \in 1..Len(out.rows) : \A c \in out.columns :
              LET v == out.rows[i][c]
              IN IF c \in required
                 THEN /\ ~isna(v)
                      /\ strip(Str(v)) # Empty
                      /\ (c \notin src.table.columns \/ IsBlank(src.table.rows[i][c]))
                            => v = StageLiteral
                      /\ v = OtherLiteral =>
                            (c \in src.table.columns /\ src.table.rows[i][c] = OtherLiteral)
                 ELSE v = src.table.rows[i][c]

\* A row with a blank required cell, an absent required column and a required
\* cell that is kept
C6_Witness ==
    /\ pc = "backfilled"
    /\ Len(out.rows) >= 1
    /\ \E a, b, c \in required :
          /\ a \in src.table.columns
          /\ src.table.rows[1][a] = <<" ">>
          /\ out.rows[1][a] = StageLiteral
          /\ b \notin src.table.columns
          /\ out.rows[1][b] = StageLiteral
          /\ c \in src.table.columns
          /\ out.rows[1][c] = <<" ", "a">>

----------------------------------------------------------------------------
(* main of ingest.py *)

RAW_DIR == "raw"
RAW_CSV == "raw/raw.csv"

\* A row of a sheet read with header=None: one cell, blank (NaN) or not
SheetRows == {<<NaN>>, <<<<"a">>>>}

Sheets == UNION {[1..n -> SheetRows] : n \in 0..MaxSheetRows}

Workbooks ==
    [exists : {TRUE},
     sheets : UNION {[1..n -> Sheets] : n \in 0..MaxSheets},
     header_row : 1..MaxHeaderRow]

\* if df.empty or len(df) < HEADER_ROW: continue
ValidSheet(sh, header_row) == ~(Len(sh) = 0 \/ Len(sh) < header_row)

IsBlankRow(r) == \A i \in 1..Len(r) : isna(r[i])

\* The rows below the header row, the all-NaN rows dropped
SheetData(sh, header_row) ==
    SelectSeq(SubSeq(sh, header_row + 1, Len(sh)), LAMBDA r : ~IsBlankRow(r))

\* ingest_excel: the first valid sheet, or no table; of the sheet, the header
\* cells (NaN as "", trimmed) and the rows below them as read
HasTable(w) == \E x \in 1..Len(w.sheets) : ValidSheet(w.sheets[x], w.header_row)

ingest_excel(w) ==
    LET x == CHOOSE y \in 1..Len(w.sheets) :
                /\ ValidSheet(w.sheets[y], w.header_row)
                /\ \A z \in 1..(y - 1) : ~ValidSheet(w.sheets[z], w.header_row)
        header == w.sheets[x][w.header_row]
    IN [columns |-> {clean(header[i]) : i \in 1..Len(header)},
        rows |-> SheetData(w.sheets[x], w.header_row)]

InitIngest ==
    /\ pc = "start"
    /\ xls \in {NoWorkbook} \cup Workbooks
    /\ fs0 \in {{}, {RAW_DIR}, {RAW_DIR, RAW_CSV}}
    /\ fs = fs0
    /\ src = NoFile
    /\ required = {}
    /\ df = EmptyTable
    /\ blocks = <<>>
    /\ p = <<>>
    /\ ri = 0
    /\ ui = 0
    /\ made = {}
    /\ clusters = <<>>
    /\ out = EmptyTable

\* main: if not EXCEL_INPUT.exists(): raise
IngestCheck ==
    /\ pc = "start"
    /\ pc' = IF xls.exists THEN "mkdir" ELSE "raised"
    /\ UNCHANGED <<src, df, blocks, p, ri, ui, made, clusters, out, required, xls, fs0, fs>>

\* main: RAW_CSV.parent.mkdir(parents=True, exist_ok=True)
IngestMkdir ==
    /\ pc = "mkdir"
    /\ fs' = fs \cup {RAW_DIR}
    /\ pc' = "read"
    /\ UNCHANGED <<src, df, blocks, p, ri, ui, made, clusters, out, required, xls, fs0>>

\* main: df = ingest_excel(EXCEL_INPUT)
IngestExcel ==
    /\ pc = "read"
    /\ IF HasTable(xls)
       THEN /\ df' = ingest_excel(xls)
            /\ pc' = "write"
       ELSE /\ df' = df
            /\ pc' = "raised"
    /\ UNCHANGED <<src, blocks, p, ri, ui, made, clusters, out, required, xls, fs0, fs>>

\* main: df.to_csv(RAW_CSV, index=False)
IngestWrite ==
    /\ pc = "write"
    /\ out' = df
    /\ fs' = fs \cup {RAW_CSV}
    /\ pc' = "done"
    /\ UNCHANGED <<src, df, blocks, p, ri, ui, made, clusters, required, xls, fs0>>

IngestNext ==
    \/ IngestCheck
    \/ IngestMkdir
    \/ IngestExcel
    \/ IngestWrite

SpecIngest == InitIngest /\ [][IngestNext]_vars

\* C9 (no partial state on failure): a run of main that raises leaves the disk
\* as it found it: no output file written and no directory created; the check
\* for a missing input or table comes before any change of the filesystem.
C9_NoPartialStateOnFailure ==
    /\ pc = "raised" => fs = fs0
    /\ RAW_CSV \in fs \ fs0 => pc = "done"

====
